---------------------------- MODULE Spec2Model ----------------------------
(***************************************************************************)
(* A model of the 20-newsgroups extraction pipeline:                       *)
(*   src/news_csv_50.py   locator, envelope parser, heuristic extractor,   *)
(*                        assembler (convert_20ng_to_excel)                *)
(*   src/deepcleane.py    the cleaner clean_body                           *)
(*                                                                         *)
(* A text is a sequence of code points (Python str); every regular         *)
(* expression of the source is computed character by character, the way    *)
(* Python's re module matches it (leftmost match, greedy quantifiers).     *)
(***************************************************************************)
EXTENDS Integers, Sequences, FiniteSets, TLC

(***************************************************************************)
(* Program constants and the bounds of the model.                          *)
(***************************************************************************)
\* news_csv_50.py:12 (and the literal 60 of deepcleane.py:73)
MIN_BODY_LEN == 60

\* how many pieces an input text of the cleaner is assembled from
MaxCleanPieces == 3

\* how many lines follow the header block of an input of the heuristic extractor
MaxHeurLines == 3

\* the largest max_files_per_category the locator is run with
MaxCap == 2

\* how many lines a text of metadata-header and content lines has at most
MaxMetaLines == 2

(***************************************************************************)
(* Character classes.                                                      *)
(***************************************************************************)
\* \s of a str pattern and str.strip()/str.isspace(), for code points < 256
IsSpace(c) == c \in {9, 10, 11, 12, 13, 28, 29, 30, 31, 32, 133, 160}

\* the boundaries str.splitlines() splits at, for code points < 256
IsLineBreak(c) == c \in {10, 11, 12, 13, 28, 29, 30, 133}

\* _ILLEGAL_XML_RE = [\x00-\x08\x0B\x0C\x0E-\x1F]
IsIllegalXml(c) == c \in (0..8) \cup {11, 12} \cup (14..31)

\* str.lower(), for code points < 256
Lower(c) == IF c \in (65..90) \cup ((192..222) \ {215}) THEN c + 32 ELSE c

\* the class [a-zA-Z0-9\s\.\,\!\?] that step 4 of the cleaner keeps
IsKeptChar(c) ==
    \/ c \in (97..122) \cup (65..90) \cup (48..57)
    \/ IsSpace(c)
    \/ c \in {46, 44, 33, 63}

(***************************************************************************)
(* Sequence helpers.  The scanning operators recurse once per match of     *)
(* their pattern (not once per character): a substitution copies the text  *)
(* up to the leftmost match, writes the replacement and goes on after the  *)
(* match, as re.sub does.                                                  *)
(***************************************************************************)
Min(S) == CHOOSE m \in S : \A k \in S : m <= k
Max(S) == 0 - Min({0 - k : k \in S})

\* the least element of S that is >= i, or 0 when there is none
NextFrom(S, i) ==
    LET T == {k \in S : k >= i} IN IF T = {} THEN 0 ELSE Min(T)

RECURSIVE Flatten(_)
Flatten(ss) == IF ss = <<>> THEN <<>> ELSE Head(ss) \o Flatten(Tail(ss))

\* sep.join(parts)
RECURSIVE Join(_, _)
Join(parts, sep) ==
    IF parts = <<>> THEN <<>>
    ELSE IF Len(parts) = 1 THEN parts[1]
    ELSE parts[1] \o sep \o Join(Tail(parts), sep)

\* str.lower()
LowerStr(s) == [i \in 1..Len(s) |-> Lower(s[i])]

\* str.strip()
Strip(s) ==
    LET keep == {i \in 1..Len(s) : ~IsSpace(s[i])}
    IN  IF keep = {} THEN <<>> ELSE SubSeq(s, Min(keep), Max(keep))

\* str.startswith(p)
StartsWith(s, p) == Len(s) >= Len(p) /\ \A i \in 1..Len(p) : s[i] = p[i]

\* a pattern literal p (written in lower case) matched at position i under re.I
MatchAtCI(s, i, p) ==
    /\ i + Len(p) - 1 <= Len(s)
    /\ \A k \in 1..Len(p) : Lower(s[i + k - 1]) = p[k]

\* a pattern literal p matched at position i, case-sensitively
MatchAt(s, i, p) ==
    /\ i + Len(p) - 1 <= Len(s)
    /\ \A k \in 1..Len(p) : s[i + k - 1] = p[k]

ContainsCI(s, p) == \E i \in 1..Len(s) : MatchAtCI(s, i, p)

\* the last index of the maximal run of whitespace (\s*) that starts at index i
\* (i - 1 when s[i] is no whitespace)
SpaceRunEnd(s, i) ==
    LET stops == {k \in i..Len(s) : ~IsSpace(s[k])}
    IN  IF stops = {} THEN Len(s) ELSE Min(stops) - 1

\* the last index of the maximal run of non-space characters (\S*) from index i
NonSpaceRunEnd(s, i) ==
    LET stops == {k \in i..Len(s) : IsSpace(s[k])}
    IN  IF stops = {} THEN Len(s) ELSE Min(stops) - 1

\* the last index of the maximal run of "\n" from index i
NewlineRunEnd(s, i) ==
    LET stops == {k \in i..Len(s) : s[k] # 10}
    IN  IF stops = {} THEN Len(s) ELSE Min(stops) - 1

\* str.splitlines(): no line ends kept, "\r\n" one boundary, no empty last line
RECURSIVE SplitLinesFrom(_, _)
SplitLinesFrom(s, i) ==
    IF i > Len(s) THEN <<>>
    ELSE LET b == NextFrom({k \in i..Len(s) : IsLineBreak(s[k])}, i)
         IN  IF b = 0 THEN <<SubSeq(s, i, Len(s))>>
             ELSE <<SubSeq(s, i, b - 1)>> \o
                  SplitLinesFrom(s, IF s[b] = 13 /\ b < Len(s) /\ s[b + 1] = 10
                                    THEN b + 2 ELSE b + 1)

SplitLines(s) == SplitLinesFrom(s, 1)

\* re.split(r"\n\s*\n", s, maxsplit=1), then parts[1] if the pattern matched
\* and parts[0] (the whole text) if it did not
BodyAfterFirstBlank(s) ==
    LET n == Len(s)
        nlIn(i) == {k \in (i + 1)..SpaceRunEnd(s, i + 1) : s[k] = 10}
        starts == {i \in 1..n : s[i] = 10 /\ nlIn(i) # {}}
    IN  IF starts = {} THEN s
        ELSE SubSeq(s, Max(nlIn(Min(starts))) + 1, n)

\* where the tag <[^>]+> that opens at index k ends, or 0 when none opens there
TagEnd(s, k) ==
    LET closers == {j \in (k + 1)..Len(s) : s[j] = 62}
    IN  IF s[k] # 60 \/ closers = {} \/ Min(closers) < k + 2 THEN 0
        ELSE Min(closers)

\* re.sub(r"<[^>]+>", " ", s)
RECURSIVE StripTagsFrom(_, _)
StripTagsFrom(s, i) ==
    LET o == NextFrom({k \in i..Len(s) : s[k] = 60 /\ TagEnd(s, k) # 0}, i)
    IN  IF o = 0 THEN SubSeq(s, i, Len(s))
        ELSE SubSeq(s, i, o - 1) \o <<32>> \o StripTagsFrom(s, TagEnd(s, o) + 1)

StripTags(s) == StripTagsFrom(s, 1)

\* where a match of \S+@\S+ starts: at the first character of a run of
\* non-space characters that holds an "@" neither first nor last in the run
EmailStarts(s) ==
    {k \in 1..Len(s) :
        /\ ~IsSpace(s[k])
        /\ (k = 1 \/ IsSpace(s[k - 1]))
        /\ \E a \in (k + 1)..(NonSpaceRunEnd(s, k) - 1) : s[a] = 64}

\* re.sub(r"\S+@\S+", " ", s): the match runs to the end of the run
RECURSIVE StripEmailsFrom(_, _)
StripEmailsFrom(s, i) ==
    LET o == NextFrom(EmailStarts(s), i)
    IN  IF o = 0 THEN SubSeq(s, i, Len(s))
        ELSE SubSeq(s, i, o - 1) \o <<32>> \o
             StripEmailsFrom(s, NonSpaceRunEnd(s, o) + 1)

StripEmails(s) == StripEmailsFrom(s, 1)

S_http == <<104, 116, 116, 112>>   \* 'http'
S_www == <<119, 119, 119, 46>>   \* 'www.'

\* where http\S+ or www\.\S+ can match: case-sensitive, one more non-space
UrlStarts(s) ==
    {k \in 1..Len(s) :
        /\ (MatchAt(s, k, S_http) \/ MatchAt(s, k, S_www))
        /\ k + 4 <= Len(s)
        /\ ~IsSpace(s[k + 4])}

\* re.sub(r"http\S+|www\.\S+", " ", s)
RECURSIVE StripUrlsFrom(_, _)
StripUrlsFrom(s, i) ==
    LET o == NextFrom(UrlStarts(s), i)
    IN  IF o = 0 THEN SubSeq(s, i, Len(s))
        ELSE SubSeq(s, i, o - 1) \o <<32>> \o
             StripUrlsFrom(s, NonSpaceRunEnd(s, o + 4) + 1)

StripUrls(s) == StripUrlsFrom(s, 1)

\* re.sub(r"[^a-zA-Z0-9\s\.\,\!\?]", " ", s)
StripSpecial(s) == [i \in 1..Len(s) |-> IF IsKeptChar(s[i]) THEN s[i] ELSE 32]

\* re.sub(r"\n{2,}", "\n", s)
RECURSIVE CollapseNewlinesFrom(_, _)
CollapseNewlinesFrom(s, i) ==
    LET o == NextFrom({k \in i..(Len(s) - 1) : s[k] = 10 /\ s[k + 1] = 10}, i)
    IN  IF o = 0 THEN SubSeq(s, i, Len(s))
        ELSE SubSeq(s, i, o - 1) \o <<10>> \o
             CollapseNewlinesFrom(s, NewlineRunEnd(s, o) + 1)

CollapseNewlines(s) == CollapseNewlinesFrom(s, 1)

\* re.sub(r"\s{2,}", " ", s)
RECURSIVE CollapseSpacesFrom(_, _)
CollapseSpacesFrom(s, i) ==
    LET o == NextFrom({k \in i..(Len(s) - 1) :
                          IsSpace(s[k]) /\ IsSpace(s[k + 1])}, i)
    IN  IF o = 0 THEN SubSeq(s, i, Len(s))
        ELSE SubSeq(s, i, o - 1) \o <<32>> \o
             CollapseSpacesFrom(s, SpaceRunEnd(s, o) + 1)

CollapseSpaces(s) == CollapseSpacesFrom(s, 1)

\* _ILLEGAL_XML_RE.sub("", s)
RemoveIllegal(s) == SelectSeq(s, LAMBDA c : ~IsIllegalXml(c))

(***************************************************************************)
(* The patterns of the two scripts.                                        *)
(***************************************************************************)
KW_archive_name == <<97, 114, 99, 104, 105, 118, 101, 45, 110, 97, 109, 101>>
KW_from == <<102, 114, 111, 109>>
KW_subject == <<115, 117, 98, 106, 101, 99, 116>>
KW_path == <<112, 97, 116, 104>>
KW_xref == <<120, 114, 101, 102>>
KW_organization == <<111, 114, 103, 97, 110, 105, 122, 97, 116, 105, 111, 110>>
KW_lines == <<108, 105, 110, 101, 115>>
KW_newsgroups == <<110, 101, 119, 115, 103, 114, 111, 117, 112, 115>>
KW_message_id == <<109, 101, 115, 115, 97, 103, 101, 45, 105, 100>>
KW_keywords == <<107, 101, 121, 119, 111, 114, 100, 115>>
KW_date == <<100, 97, 116, 101>>
KW_sender == <<115, 101, 110, 100, 101, 114>>
KW_last_modified == <<108, 97, 115, 116, 45, 109, 111, 100, 105, 102, 105, 101, 100>>
KW_version == <<118, 101, 114, 115, 105, 111, 110>>
S_writes == <<119, 114, 105, 116, 101, 115, 58>>   \* 'writes:'
S_wrote == <<119, 114, 111, 116, 101, 58>>   \* 'wrote:'
S_in_article == <<105, 110, 32, 97, 114, 116, 105, 99, 108, 101>>   \* 'in article'

\* some prefix of the line is one of the keywords followed by ":", under re.I
MatchesHeader(line, keywords) ==
    \E kw \in keywords : MatchAtCI(line, 1, kw \o <<58>>)

\* the positions right after a match of r"In article\s*" that a "<" follows
InArticleOpens(line) ==
    {SpaceRunEnd(line, i + Len(S_in_article)) + 1 :
        i \in {k \in 1..Len(line) : MatchAtCI(line, k, S_in_article)}}

(***************************************************************************)
(* deepcleane.py: clean_body                                               *)
(***************************************************************************)
\* the keyword list of the re.match of deepcleane.py:26-30
CB_HEADER_KEYWORDS ==
    {KW_archive_name, KW_from, KW_subject, KW_path, KW_xref, KW_organization,
     KW_lines, KW_newsgroups, KW_message_id, KW_keywords, KW_last_modified,
     KW_version}

\* line.strip().startswith((">", "|"))
CB_IsQuote(line) ==
    LET t == Strip(line) IN t # <<>> /\ t[1] \in {62, 124}

\* a cleaner that does not stop at a signature line
CB_NeverSignature(line) == FALSE

\* line.strip().startswith("--")
CB_IsSignature(line) == StartsWith(Strip(line), <<45, 45>>)

\* re.search(r"In article\s*<.*?>", line, re.I)
CB_IsInArticle(line) ==
    \E o \in InArticleOpens(line) :
        /\ o <= Len(line)
        /\ line[o] = 60
        /\ \E c \in (o + 1)..Len(line) : line[c] = 62

\* re.search(r"writes:|wrote:", line, re.I)
CB_IsAttribution(line) == ContainsCI(line, S_writes) \/ ContainsCI(line, S_wrote)

\* the for loop of clean_body over body.splitlines()
RECURSIVE CB_FilterLines(_)
CB_FilterLines(lines) ==
    IF lines = <<>> THEN <<>>
    ELSE LET line == Head(lines)
         IN  IF MatchesHeader(line, CB_HEADER_KEYWORDS) THEN CB_FilterLines(Tail(lines))
             ELSE IF CB_IsQuote(line) THEN CB_FilterLines(Tail(lines))
             ELSE IF CB_IsSignature(line) THEN <<>>
             ELSE IF CB_IsInArticle(line) THEN CB_FilterLines(Tail(lines))
             ELSE IF CB_IsAttribution(line) THEN CB_FilterLines(Tail(lines))
             ELSE <<line>> \o CB_FilterLines(Tail(lines))

\* the regular-expression steps of clean_body, in the order of the code
CB_Normalize(body) ==
    LET b1 == StripEmails(body)
        b2 == StripUrls(b1)
        b3 == StripTags(b2)
        b4 == StripSpecial(b3)
        b5 == CollapseNewlines(b4)
        b6 == CollapseSpaces(b5)
        b7 == Strip(LowerStr(b6))
    IN  RemoveIllegal(b7)

\* clean_body(raw_text) for a str raw_text
clean_body(raw_text) ==
    LET body == BodyAfterFirstBlank(raw_text)
        cleaned_lines == CB_FilterLines(SplitLines(body))
    IN  CB_Normalize(Join(cleaned_lines, <<10>>))


(***************************************************************************)
(* news_csv_50.py: extract_body_by_heuristic                               *)
(***************************************************************************)
\* the keyword list of HEADER_PATTERN
HEADER_PATTERN ==
    {KW_archive_name, KW_from, KW_subject, KW_path, KW_xref, KW_organization,
     KW_lines, KW_newsgroups, KW_message_id, KW_keywords, KW_date, KW_sender}

\* QUOTE_LINE.match(line): ^\s*([>|\|])
QUOTE_LINE(line) ==
    LET t == Strip(line) IN t # <<>> /\ t[1] \in {62, 124}

\* REPLY_MARKER.search(line): (writes:|wrote:|In article\s*<), re.I
REPLY_MARKER(line) ==
    \/ ContainsCI(line, S_writes)
    \/ ContainsCI(line, S_wrote)
    \/ \E o \in InArticleOpens(line) : o <= Len(line) /\ line[o] = 60

\* a SIG_SEP written ^--$, which misses the usual "-- "
SIG_SEP_Bare(line) == line = <<45, 45>>

\* SIG_SEP.match(line): ^\s*--\s*$
SIG_SEP(line) == Strip(line) = <<45, 45>>

\* re.match(r"^\s*[-=]{3,}\s*$", line)
IsSeparatorLine(line) ==
    LET t == Strip(line)
    IN  Len(t) >= 3 /\ \A i \in 1..Len(t) : t[i] \in {45, 61}

\* raw_text.replace("\r\n", "\n").replace("\r", "\n"): every "\r" becomes
\* "\n", and a "\n" that follows a "\r" goes with it
NormalizeNewlines(s) ==
    LET marked == [k \in 1..Len(s) |->
                      IF s[k] = 10 /\ k > 1 /\ s[k - 1] = 13 THEN 0 - 1
                      ELSE IF s[k] = 13 THEN 10
                      ELSE s[k]]
    IN  SelectSeq(marked, LAMBDA c : c >= 0)

\* the for loop of extract_body_by_heuristic over body.splitlines()
RECURSIVE HeuristicFilterLines(_)
HeuristicFilterLines(lines) ==
    IF lines = <<>> THEN <<>>
    ELSE LET line == Head(lines)
         IN  IF MatchesHeader(line, HEADER_PATTERN) THEN HeuristicFilterLines(Tail(lines))
             ELSE IF QUOTE_LINE(line) THEN HeuristicFilterLines(Tail(lines))
             ELSE IF REPLY_MARKER(line) THEN HeuristicFilterLines(Tail(lines))
             ELSE IF SIG_SEP(line) THEN <<>>
             ELSE IF IsSeparatorLine(line) THEN HeuristicFilterLines(Tail(lines))
             ELSE <<line>> \o HeuristicFilterLines(Tail(lines))

\* re.split(r"\n{2,}", s)
RECURSIVE SplitParasFrom(_, _)
SplitParasFrom(s, i) ==
    LET o == NextFrom({k \in i..(Len(s) - 1) : s[k] = 10 /\ s[k + 1] = 10}, i)
    IN  IF o = 0 THEN <<SubSeq(s, i, Len(s))>>
        ELSE <<SubSeq(s, i, o - 1)>> \o SplitParasFrom(s, NewlineRunEnd(s, o) + 1)

StripAll(parts) == [i \in 1..Len(parts) |-> Strip(parts[i])]

\* [p.strip() for p in re.split(r"\n{2,}", s) if p.strip()]
Paragraphs(s) ==
    SelectSeq(StripAll(SplitParasFrom(s, 1)), LAMBDA p : p # <<>>)

\* " ".join([l.strip() for l in s.splitlines() if l.strip()])
JoinedLines(s) ==
    Join(SelectSeq(StripAll(SplitLines(s)), LAMBDA l : l # <<>>), <<32>>)

\* max(paras, key=len): the first paragraph of maximal length
FirstLongest(paras) ==
    paras[Min({i \in 1..Len(paras) :
                  \A k \in 1..Len(paras) : Len(paras[k]) <= Len(paras[i])})]

\* a selection that always takes the longest paragraph
SelectLongest(paras) == IF paras # <<>> THEN FirstLongest(paras) ELSE <<>>

\* lines 83-86: the first paragraph of at least MIN_BODY_LEN characters,
\* else the longest one
SelectParagraph(paras) ==
    LET long == {i \in 1..Len(paras) : Len(paras[i]) >= MIN_BODY_LEN}
    IN  IF long # {} THEN paras[Min(long)]
        ELSE IF paras # <<>> THEN FirstLongest(paras)
        ELSE <<>>

\* lines 59-61: the candidate body
CandidateBody(raw_text) == BodyAfterFirstBlank(NormalizeNewlines(raw_text))

\* lines 63-77: the retained text, before tag stripping
HeuristicRetained(raw_text) ==
    Strip(Join(HeuristicFilterLines(SplitLines(CandidateBody(raw_text))), <<10>>))

\* lines 78-86: tag stripping and paragraph selection
HeuristicSelect(retained) ==
    LET cleaned == StripTags(retained)
        split == Paragraphs(cleaned)
        paras == IF split = <<>> THEN <<JoinedLines(cleaned)>> ELSE split
    IN  SelectParagraph(paras)

\* lines 63-86, on the candidate body
HeuristicFromBody(body) ==
    HeuristicSelect(Strip(Join(HeuristicFilterLines(SplitLines(body)), <<10>>)))

extract_body_by_heuristic(raw_text) ==
    HeuristicFromBody(CandidateBody(raw_text))

(***************************************************************************)
(* news_csv_50.py: collect_eml_files.  A name is a text; a path is the     *)
(* sequence of names below the root folder.                                *)
(***************************************************************************)
S_eml == <<46, 101, 109, 108>>   \* '.eml'
UNCATEGORIZED == <<117, 110, 99, 97, 116, 101, 103, 111, 114, 105, 122, 101, 100>>   \* 'uncategorized'

\* a < b in the order sorted() puts strings in: by code point, a proper prefix
\* first
LexLess(a, b) ==
    \E i \in 1..Len(b) :
        /\ \A k \in 1..(i - 1) : k <= Len(a) /\ a[k] = b[k]
        /\ (i > Len(a) \/ a[i] < b[i])

\* sorted(names)
RECURSIVE Sorted(_)
Sorted(names) ==
    IF names = {} THEN <<>>
    ELSE LET first == CHOOSE a \in names : \A b \in names \ {a} : LexLess(a, b)
         IN  <<first>> \o Sorted(names \ {first})

\* f.lower().endswith(".eml")
IsEmlName(f) ==
    /\ Len(f) >= Len(S_eml)
    /\ SubSeq(LowerStr(f), Len(f) - Len(S_eml) + 1, Len(f)) = S_eml

\* a loop whose bound is off by one: it stops at i > max_files
TakeCappedOneMore(names, max_files) ==
    SubSeq(names, 1, IF Len(names) <= max_files THEN Len(names) ELSE max_files + 1)

\* for i, fname in enumerate(names): if i >= max_files: break
TakeCapped(names, max_files) ==
    SubSeq(names, 1, IF Len(names) <= max_files THEN Len(names) ELSE max_files)

\* line 123: the .eml entries of subdirectory d, sorted
EmlFilesOf(tree, d) == Sorted({f \in tree.subdir[d] : IsEmlName(f)})

\* lines 126-129: the items of subdirectory d
ItemsOfSubdir(tree, d, max_files) ==
    LET taken == TakeCapped(EmlFilesOf(tree, d), max_files)
    IN  [i \in 1..Len(taken) |->
            [filename |-> taken[i], category |-> d, path |-> <<d, taken[i]>>]]

\* lines 134-138: the items of the root folder itself
ItemsOfRoot(tree, max_files) ==
    LET taken == TakeCapped(Sorted({f \in DOMAIN tree.root : IsEmlName(f)}), max_files)
    IN  [i \in 1..Len(taken) |->
            [filename |-> taken[i], category |-> UNCATEGORIZED, path |-> <<taken[i]>>]]

\* line 119: the subdirectories of the root, sorted
Subdirs(tree) == Sorted({d \in DOMAIN tree.root : tree.root[d] = "dir"})

\* a flag that any subdirectory sets, with or without .eml files in it
AnySubdir(tree) == Subdirs(tree) # <<>>

\* lines 120-125: has_valid_subdirs
HasValidSubdirs(tree) ==
    \E i \in 1..Len(Subdirs(tree)) : EmlFilesOf(tree, Subdirs(tree)[i]) # <<>>

collect_eml_files(tree, max_files) ==
    IF ~tree.isdir THEN <<>>
    ELSE LET subdirs == Subdirs(tree)
             items == Flatten([i \in 1..Len(subdirs) |->
                                  ItemsOfSubdir(tree, subdirs[i], max_files)])
         IN  IF HasValidSubdirs(tree) THEN items
             ELSE items \o ItemsOfRoot(tree, max_files)

(***************************************************************************)
(* news_csv_50.py: try_extract_from_eml_bytes.  The bytes of a file are    *)
(* code points 0..255.  The parser of the standard library is modelled for *)
(* single-part messages: lines end at "\n", "\r" or "\r\n"; the header     *)
(* block is the leading lines that start with "From ", with a blank or a   *)
(* tab, or with a colon-terminated name of printable characters; a blank   *)
(* line after it is dropped; the rest is the payload.                      *)
(***************************************************************************)
S_From_ == <<70, 114, 111, 109, 32>>   \* 'From '
S_content_type == <<99, 111, 110, 116, 101, 110, 116, 45, 116, 121, 112, 101, 58>>   \* 'content-type:'
S_octet_stream == <<97, 112, 112, 108, 105, 99, 97, 116, 105, 111, 110, 47, 111, 99, 116, 101, 116, 45, 115, 116, 114, 101, 97, 109>>   \* 'application/octet-stream'

\* the index of the last character of the line that starts at index i
EnvLineEnd(s, i) ==
    LET b == NextFrom({k \in i..Len(s) : s[k] \in {10, 13}}, i)
    IN  IF b = 0 THEN Len(s)
        ELSE IF s[b] = 13 /\ b < Len(s) /\ s[b + 1] = 10 THEN b + 1
        ELSE b

\* headerRE.match(line): ^(From |[\041-\071\073-\176]*:|[\t ])
IsEnvHeaderLine(s, i) ==
    \/ MatchAt(s, i, S_From_)
    \/ s[i] \in {9, 32}
    \/ \E k \in i..EnvLineEnd(s, i) :
          /\ s[k] = 58
          /\ \A j \in i..(k - 1) : s[j] \in (33..126) \ {58}

\* the start indices of the lines of the header block
RECURSIVE EnvHeaderStarts(_, _)
EnvHeaderStarts(s, i) ==
    IF i > Len(s) \/ ~IsEnvHeaderLine(s, i) THEN <<>>
    ELSE <<i>> \o EnvHeaderStarts(s, EnvLineEnd(s, i) + 1)

\* the payload: what follows the header block and the blank separator line;
\* a "From " line that ends a header block of several lines opens the payload
EnvPayload(s) ==
    LET h == EnvHeaderStarts(s, 1)
        stop == IF h = <<>> THEN 1 ELSE EnvLineEnd(s, h[Len(h)]) + 1
        after == IF stop <= Len(s) /\ s[stop] \in {10, 13}
                 THEN EnvLineEnd(s, stop) + 1 ELSE stop
        rest == SubSeq(s, after, Len(s))
    IN  IF Len(h) > 1 /\ MatchAt(s, h[Len(h)], S_From_)
        THEN SubSeq(s, h[Len(h)], stop - 1) \o rest
        ELSE rest

\* where the value of the header that starts at index i begins
EnvValueStart(s, i) ==
    LET stops == {k \in (i + Len(S_content_type))..Len(s) : s[k] \notin {9, 32}}
    IN  IF stops = {} THEN Len(s) + 1 ELSE Min(stops)

\* the first Content-Type header names application/octet-stream: get_content()
\* then returns the payload as bytes.  Other media types, parameters and
\* folded values are not modelled.
EnvIsBinary(s) ==
    LET h == EnvHeaderStarts(s, 1)
        ct == {n \in 1..Len(h) : MatchAtCI(s, h[n], S_content_type)}
    IN  ct # {} /\ MatchAtCI(s, EnvValueStart(s, h[Min(ct)]), S_octet_stream)

\* content.decode("ascii", errors="replace"): a byte above 127 becomes U+FFFD
DecodeAscii(b) == [i \in 1..Len(b) |-> IF b[i] > 127 THEN 65533 ELSE b[i]]

\* bytes.strip(): ASCII whitespace only
StripBytes(b) ==
    LET keep == {i \in 1..Len(b) : b[i] \notin {9, 10, 11, 12, 13, 32}}
    IN  IF keep = {} THEN <<>> ELSE SubSeq(b, Min(keep), Max(keep))

\* lines 49-53 (msg is not multipart): msg.get_content().strip()
try_extract_from_eml_bytes(content_bytes) ==
    IF EnvIsBinary(content_bytes)
    THEN [kind |-> "bytes", text |-> StripBytes(EnvPayload(content_bytes))]
    ELSE [kind |-> "str", text |-> Strip(DecodeAscii(EnvPayload(content_bytes)))]

(***************************************************************************)
(* news_csv_50.py: extract_main_body_from_file.  A file is a record of     *)
(* whether open() succeeds and of its bytes.  The result is the body, or   *)
(* the exception that leaves the function.                                 *)
(***************************************************************************)
\* text.replace("\r\n", "\n")
ReplaceCRLF(s) ==
    LET marked == [k \in 1..Len(s) |->
                      IF s[k] = 13 /\ k < Len(s) /\ s[k + 1] = 10 THEN 0 - 1
                      ELSE s[k]]
    IN  SelectSeq(marked, LAMBDA c : c >= 0)

\* line 103: "\n".join([ln for ln in p.splitlines() if not HEADER_PATTERN.match(ln)])
DropHeaderLines(p) ==
    Join(SelectSeq(SplitLines(p), LAMBDA ln : ~MatchesHeader(ln, HEADER_PATTERN)),
         <<10>>)

\* lines 99-105: the light pass over the text of the envelope
LightPass(text0) ==
    LET text == ReplaceCRLF(text0)
        paras == Paragraphs(text)
        good == {i \in 1..Len(paras) :
                    Len(paras[i]) >= MIN_BODY_LEN /\ ~QUOTE_LINE(paras[i])}
    IN  IF good # {} THEN Strip(DropHeaderLines(paras[Min(good)]))
        ELSE extract_body_by_heuristic(text)

extract_main_body_from_file(file) ==
    IF ~file.readable THEN [raised |-> "none", body |-> <<>>]
    ELSE LET env == try_extract_from_eml_bytes(file.raw)
         IN  IF env.text # <<>>
             THEN IF env.kind = "bytes"
                  THEN [raised |-> "TypeError", body |-> <<>>]
                  ELSE [raised |-> "none", body |-> LightPass(env.text)]
             ELSE [raised |-> "none", body |-> extract_body_by_heuristic(file.raw)]

(***************************************************************************)
(* news_csv_50.py: sanitize_for_excel and the rows of convert_20ng_to_excel*)
(***************************************************************************)
sanitize_for_excel(value) ==
    IF value # <<>> /\ value[1] \in {61, 43, 45, 64} THEN <<39>> \o value
    ELSE value

\* lines 174-176: each string column is sanitized, then stripped of the
\* characters a workbook cannot hold
CleanColumns(row) ==
    [filename |-> RemoveIllegal(sanitize_for_excel(row.filename)),
     category |-> RemoveIllegal(sanitize_for_excel(row.category)),
     text |-> RemoveIllegal(sanitize_for_excel(row.text))]

\* line 162: not body or len(body.strip()) < MIN_BODY_LEN
IsDropped(body) == body = <<>> \/ Len(Strip(body)) < MIN_BODY_LEN

(***************************************************************************)
(* deepcleane.py, the script: the rows of the workbook are cleaned,        *)
(* filtered by length and stripped of illegal characters.                  *)
(***************************************************************************)
DeepCleanRows(table) ==
    LET cleaned == [i \in 1..Len(table) |->
                       [table[i] EXCEPT !.text = clean_body(table[i].text)]]
        kept == SelectSeq(cleaned, LAMBDA r : Len(Strip(r.text)) >= MIN_BODY_LEN)
    IN  [i \in 1..Len(kept) |->
            [filename |-> RemoveIllegal(kept[i].filename),
             category |-> RemoveIllegal(kept[i].category),
             text |-> RemoveIllegal(kept[i].text)]]

(***************************************************************************)
(* State.                                                                  *)
(***************************************************************************)
VARIABLES
    cb_raw,     \* cleaner: the text cell handed to clean_body
    cb_text,    \* cleaner: the current value of the cell
    cb_first,   \* cleaner: the value after the first application
    cb_passes,  \* cleaner: how many times clean_body has been applied
    h_raw,      \* heuristic extractor: the raw text handed to it
    h_out,      \* heuristic extractor: the text it returned
    h_done,     \* heuristic extractor: whether it has returned
    tree,       \* locator: the root folder on disk
    cap,        \* locator: max_files_per_category
    items,      \* locator: the sequence collect_eml_files returned
    l_done,     \* locator: whether it has returned
    disk,       \* assembler: the file at each path
    pc,         \* assembler: where the run of the two scripts stands
    idx,        \* assembler: the position of the loop in the file list
    rows,       \* assembler: the rows collected so far
    out_csv,    \* assembler: the rows written to OUT_CSV
    out_xlsx,   \* assembler: the rows written to OUT_XLSX
    final       \* deep cleaner: the rows of the final dataset

cleanVars == <<cb_raw, cb_text, cb_first, cb_passes>>
heurVars == <<h_raw, h_out, h_done>>
locVars == <<tree, cap, items, l_done>>
pipeVars == <<disk, pc, idx, rows, out_csv, out_xlsx, final>>
vars == <<cb_raw, cb_text, cb_first, cb_passes, h_raw, h_out, h_done,
          tree, cap, items, l_done, disk, pc, idx, rows, out_csv, out_xlsx,
          final>>

\* every sequence of at most n elements of S
SeqsUpTo(S, n) == UNION {[1..k -> S] : k \in 0..n}

(***************************************************************************)
(* The cleaner applied to a text cell, and applied again to its own        *)
(* output (deepcleane.py:69, run over a dataset it has already cleaned).   *)
(***************************************************************************)
P_ht == <<104, 116>>   \* 'ht'
P_tpx == <<116, 112, 120>>   \* 'tpx'
P_us == <<31>>   \* '\x1f'
P_ff == <<12>>   \* '\x0c'
P_WWW == <<87, 87, 87, 46, 97>>   \* 'WWW.a'
P_nl == <<10>>   \* '\n'
P_sp == <<32>>   \* ' '
P_mail == <<97, 64, 98>>   \* 'a@b'
P_tag == <<60, 98, 62>>   \* '<b>'
P_From == <<70, 114, 111, 109, 58, 32, 97>>   \* 'From: a'
P_quote == <<62, 32, 113>>   \* '> q'
P_sig == <<45, 45>>   \* '--'
P_text == <<65, 98, 44, 32, 99, 33>>   \* 'Ab, c!'
P_wrote == <<104, 101, 32, 119, 114, 111, 116, 101, 58>>   \* 'he wrote:'
P_soh == <<1>>   \* '\x01'
CleanPieces ==
    {P_ht, P_tpx, P_us, P_ff, P_WWW, P_nl, P_sp, P_mail, P_tag, P_From,
     P_quote, P_sig, P_text, P_wrote, P_soh}

CleanInputs == {Flatten(ps) : ps \in SeqsUpTo(CleanPieces, MaxCleanPieces)}

CleanIdle ==
    /\ cb_raw = <<>>
    /\ cb_text = <<>>
    /\ cb_first = <<>>
    /\ cb_passes = 0

HeurIdle ==
    /\ h_raw = <<>>
    /\ h_out = <<>>
    /\ h_done = FALSE

NoTree == [isdir |-> FALSE, root |-> <<>>, subdir |-> <<>>]

LocIdle ==
    /\ tree = NoTree
    /\ cap = 0
    /\ items = <<>>
    /\ l_done = FALSE

PipeIdle ==
    /\ disk = <<>>
    /\ pc = "idle"
    /\ idx = 0
    /\ rows = <<>>
    /\ out_csv = <<>>
    /\ out_xlsx = <<>>
    /\ final = <<>>

InitClean ==
    /\ HeurIdle
    /\ LocIdle
    /\ PipeIdle
    /\ cb_raw \in CleanInputs
    /\ cb_text = cb_raw
    /\ cb_first = <<>>
    /\ cb_passes = 0

\* df["text"] = df["text"].apply(clean_body), on the raw cell
CleanFirst ==
    /\ cb_passes = 0
    /\ cb_text' = clean_body(cb_text)
    /\ cb_first' = cb_text'
    /\ cb_passes' = 1
    /\ UNCHANGED <<cb_raw, heurVars, locVars, pipeVars>>

\* the same statement, on a cell that is already the cleaner's output
CleanAgain ==
    /\ cb_passes = 1
    /\ cb_text' = clean_body(cb_text)
    /\ cb_passes' = 2
    /\ UNCHANGED <<cb_raw, cb_first, heurVars, locVars, pipeVars>>

NextClean == CleanFirst \/ CleanAgain

SpecClean == InitClean /\ [][NextClean]_vars


(***************************************************************************)
(* The heuristic extractor applied to a raw text: an optional header block *)
(* and blank line, then at most MaxHeurLines lines joined by "\n".         *)
(***************************************************************************)
\* a line two characters short of MIN_BODY_LEN
Pad == [i \in 1..(MIN_BODY_LEN - 2) |-> 120]
L_blank == <<>>
L_mid == Pad
L_long == Pad \o <<121, 122>>   \* Pad, then 'yz'
L_longer == Pad \o <<119, 44, 32, 122>>   \* Pad, then 'w, z'
L_short == <<60, 98, 62, 72, 105, 60, 47, 98, 62, 32, 97, 108, 108>>   \* '<b>Hi</b> all'
L_quote == <<62, 81, 113>>   \* '>Qq'
L_pipe == <<124, 81, 113>>   \* '|Qq'
L_sig == <<45, 45, 32, 10, 74, 111, 101>>   \* '-- \nJoe'
L_meta == <<68, 97, 116, 101, 58, 32, 49, 13, 10, 61, 61, 61, 13, 10, 65, 32, 87, 114, 111, 116, 101, 58>>   \* 'Date: 1\r\n===\r\nA Wrote:'
HeurHeader == <<83, 117, 98, 106, 101, 99, 116, 58, 32, 115, 10, 10>>   \* 'Subject: s\n\n'
HeurLines ==
    {L_blank, L_mid, L_long, L_longer, L_short, L_quote, L_pipe, L_sig, L_meta}

HeurInputs ==
    {h \o Join(ls, <<10>>) :
        h \in {<<>>, HeurHeader}, ls \in SeqsUpTo(HeurLines, MaxHeurLines)}

InitHeur ==
    /\ CleanIdle
    /\ LocIdle
    /\ PipeIdle
    /\ h_raw \in HeurInputs
    /\ h_out = <<>>
    /\ h_done = FALSE

\* text = extract_body_by_heuristic(raw_text)
Extract ==
    /\ ~h_done
    /\ h_out' = extract_body_by_heuristic(h_raw)
    /\ h_done' = TRUE
    /\ UNCHANGED <<h_raw, cleanVars, locVars, pipeVars>>

NextHeur == Extract

SpecHeur == InitHeur /\ [][NextHeur]_vars

(***************************************************************************)
(* The locator run on a root folder.  The root holds files and             *)
(* subdirectories; what a subdirectory holds is listed by name only, as    *)
(* os.listdir gives it and as the code reads it.                           *)
(***************************************************************************)
D_alt == <<97, 108, 116>>   \* 'alt'
D_eml == <<120, 46, 101, 109, 108>>   \* 'x.eml'
F_B == <<66, 46, 69, 77, 76>>   \* 'B.EML'
F_a == <<97, 46, 101, 109, 108>>   \* 'a.eml'
F_b == <<98, 46, 101, 109, 108>>   \* 'b.eml'
F_c == <<99, 46, 116, 120, 116>>   \* 'c.txt'
F_n == <<110, 46, 116, 120, 116>>   \* 'n.txt'

\* every function from a subset of S to T
PartialFunctions(S, T) == UNION {[D -> T] : D \in SUBSET S}

\* a subdirectory named alt or uncategorized holds any of four names; x.eml,
\* when it is a directory, holds nothing or one message
Trees ==
    {[isdir |-> TRUE, root |-> r, subdir |-> sd] :
        r \in {f \in PartialFunctions({D_alt, UNCATEGORIZED, D_eml, F_a, F_n},
                                      {"file", "dir"}) :
                  /\ \A n \in DOMAIN f \cap {D_alt, UNCATEGORIZED} : f[n] = "dir"
                  /\ \A n \in DOMAIN f \cap {F_a, F_n} : f[n] = "file"},
        sd \in PartialFunctions({D_alt, UNCATEGORIZED, D_eml},
                                SUBSET {F_B, F_a, F_b, F_c})}

ValidTree(t) ==
    /\ DOMAIN t.subdir = {d \in DOMAIN t.root : t.root[d] = "dir"}
    /\ D_eml \in DOMAIN t.subdir => t.subdir[D_eml] \in {{}, {F_a}}

InitLocate ==
    /\ CleanIdle
    /\ HeurIdle
    /\ PipeIdle
    /\ tree \in {t \in Trees : ValidTree(t)} \cup {NoTree}
    /\ cap \in 0..MaxCap
    /\ items = <<>>
    /\ l_done = FALSE

\* files = collect_eml_files(root_folder, max_files_per_category)
Collect ==
    /\ ~l_done
    /\ items' = collect_eml_files(tree, cap)
    /\ l_done' = TRUE
    /\ UNCHANGED <<tree, cap, cleanVars, heurVars, pipeVars>>

NextLocate == Collect

SpecLocate == InitLocate /\ [][NextLocate]_vars

(***************************************************************************)
(* The two scripts run one after the other: convert_20ng_to_excel locates  *)
(* the files, extracts a body from each and writes the dataset; the script *)
(* of deepcleane.py reads the workbook and writes the final dataset.       *)
(***************************************************************************)
S_hdr == <<70, 114, 111, 109, 58, 32, 97, 10, 83, 117, 98, 106, 101, 99, 116, 58, 32, 115, 10, 10>>   \* 'From: a\nSubject: s\n\n'
S_binhdr == <<67, 111, 110, 116, 101, 110, 116, 45, 84, 121, 112, 101, 58, 32, 97, 112, 112, 108, 105, 99, 97, 116, 105, 111, 110, 47, 111, 99, 116, 101, 116, 45, 115, 116, 114, 101, 97, 109, 10, 10>>   \* 'Content-Type: application/octet-stream\n\n'
B_hello == <<72, 101, 108, 108, 111, 32, 87, 111, 114, 108, 100, 44, 32, 116, 104, 105, 115, 32, 105, 115, 32, 97, 32, 108, 111, 110, 103, 32, 101, 110, 111, 117, 103, 104, 32, 109, 101, 115, 115, 97, 103, 101, 32, 98, 111, 100, 121, 32, 116, 111, 32, 112, 97, 115, 115, 32, 116, 104, 101, 32, 102, 105, 108, 116, 101, 114, 46>>   \* 'Hello World, this is a long enough message body to pass the filter.'
B_deleted == <<91, 100, 101, 108, 101, 116, 101, 100, 93>>   \* '[deleted]'
F_dash == <<45, 98, 46, 101, 109, 108>>   \* '-b.eml'

ReadableFile(raw) == [readable |-> TRUE, raw |-> raw]

\* a file open() fails on
V_unreadable == [readable |-> FALSE, raw |-> <<>>]
\* a message with one long body line
V_plain == ReadableFile(S_hdr \o B_hello)
\* the same, followed by a signature block
V_sig == ReadableFile(S_hdr \o B_hello \o L_sig)
\* a message too short to keep
V_short == ReadableFile(S_hdr \o B_deleted)
\* an empty file
V_empty == ReadableFile(<<>>)
\* a body of exactly MIN_BODY_LEN characters, the last one a control character
V_ctl == ReadableFile(S_hdr \o Pad \o <<97, 1>>)
\* a body that opens with a control character and then "="
V_inj == ReadableFile(S_hdr \o <<1, 61>> \o Pad)
\* a body that opens with "="
V_eq == ReadableFile(S_hdr \o <<61, 49, 43>> \o Pad)
\* a message whose content type is not text
V_bin == ReadableFile(S_binhdr \o L_long)
\* a file without header lines, holding a byte above 127
V_latin == ReadableFile(Pad \o <<233, 33>>)

FileVariants ==
    {V_unreadable, V_plain, V_sig, V_short, V_empty, V_ctl, V_inj, V_eq, V_bin,
     V_latin}

\* the names a category folder may hold
PipeNames == {F_dash, F_a, F_b}

\* a root folder with the one category folder alt
PipeTree(names) ==
    [isdir |-> TRUE, root |-> (D_alt :> "dir"), subdir |-> (D_alt :> names)]

Init ==
    /\ CleanIdle
    /\ HeurIdle
    /\ \E names \in SUBSET PipeNames :
          /\ tree = PipeTree(names)
          /\ disk \in [{<<D_alt, f>> : f \in names} -> FileVariants]
    /\ cap = MaxCap
    /\ items = <<>>
    /\ l_done = FALSE
    /\ pc = "ready"
    /\ idx = 0
    /\ rows = <<>>
    /\ out_csv = <<>>
    /\ out_xlsx = <<>>
    /\ final = <<>>

\* lines 150-156: the files are located; without any the run returns
Start ==
    /\ pc = "ready"
    /\ items' = collect_eml_files(tree, cap)
    /\ l_done' = TRUE
    /\ pc' = IF items' = <<>> THEN "returned" ELSE "loop"
    /\ idx' = 1
    /\ UNCHANGED <<tree, cap, disk, rows, out_csv, out_xlsx, final, cleanVars,
                   heurVars>>

\* lines 157-164: one iteration of the loop over the files; an exception that
\* extract_main_body_from_file lets through ends the run
ProcessFile ==
    /\ pc = "loop"
    /\ idx <= Len(items)
    /\ LET info == items[idx]
           res == extract_main_body_from_file(disk[info.path])
       IN  IF res.raised # "none"
           THEN /\ pc' = "aborted"
                /\ UNCHANGED <<idx, rows>>
           ELSE /\ pc' = pc
                /\ idx' = idx + 1
                /\ rows' = IF IsDropped(res.body) THEN rows
                           ELSE Append(rows, [filename |-> info.filename,
                                              category |-> info.category,
                                              text |-> res.body])
    /\ UNCHANGED <<disk, out_csv, out_xlsx, final, locVars, cleanVars, heurVars>>

\* lines 166-180: without rows the run returns; else the string columns are
\* cleaned and the table is written to both sinks
Finish ==
    /\ pc = "loop"
    /\ idx > Len(items)
    /\ IF rows = <<>>
       THEN /\ pc' = "returned"
            /\ UNCHANGED <<out_csv, out_xlsx>>
       ELSE LET df == [i \in 1..Len(rows) |-> CleanColumns(rows[i])]
            IN  /\ out_csv' = df
                /\ out_xlsx' = df
                /\ pc' = "written"
    /\ UNCHANGED <<disk, idx, rows, final, locVars, cleanVars, heurVars>>

\* deepcleane.py lines 59-83, on the workbook the assembler wrote
DeepClean ==
    /\ pc = "written"
    /\ final' = DeepCleanRows(out_xlsx)
    /\ pc' = "final"
    /\ UNCHANGED <<disk, idx, rows, out_csv, out_xlsx, locVars, cleanVars,
                   heurVars>>

Next == Start \/ ProcessFile \/ Finish \/ DeepClean

Spec == Init /\ [][Next]_vars

(***************************************************************************)
(* Scenario A, generalized: one message file with the header lines From:   *)
(* and Subject:, a blank line, one body line of at least MIN_BODY_LEN      *)
(* characters, a signature boundary and a signature line.                  *)
(***************************************************************************)
HL_from == <<70, 114, 111, 109, 58, 32, 97>>   \* 'From: a'
HL_subject == <<83, 117, 98, 106, 101, 99, 116, 58, 32, 115>>   \* 'Subject: s'
HL_from2 == <<70, 114, 111, 109, 58, 32, 74, 111, 101, 32, 60, 106, 64, 120, 46, 111, 114, 103, 62>>   \* 'From: Joe <j@x.org>'
HL_subject2 == <<83, 117, 98, 106, 101, 99, 116, 58, 32, 82, 101, 58, 32, 72, 105>>   \* 'Subject: Re: Hi'
B_mail == <<77, 97, 105, 108, 32, 66, 111, 98, 64, 88, 46, 111, 114, 103, 59, 32>>   \* 'Mail Bob@X.org; '
B_plus == <<43, 49, 32, 84, 111, 32, 84, 104, 97, 116, 44, 32>>   \* '+1 To That, '
G_line == <<83, 105, 103, 110, 97, 116, 117, 114, 101, 32, 108, 105, 110, 101>>   \* 'Signature line'
G_mail == <<74, 111, 101, 32, 60, 106, 64, 120, 46, 111, 114, 103, 62>>   \* 'Joe <j@x.org>'
G_caps == <<74, 79, 69, 44, 32, 84, 101, 108, 46, 32, 53>>   \* 'JOE, Tel. 5'

ScnHeaders == {<<HL_from, HL_subject>>, <<HL_subject2, HL_from2>>}
ScnBodies == {B_hello, L_long, B_mail \o Pad, B_plus \o Pad}
ScnBoundaries == {<<45, 45, 32>>, <<45, 45>>}
ScnSignatures == {G_line, G_mail, G_caps}
ScnNewlines == {<<10>>, <<13, 10>>}

\* the bytes of the message file
ScnFile(h, b, bd, g, nl) ==
    Join(h, nl) \o nl \o nl \o b \o nl \o bd \o nl \o g

ScnPath == <<D_alt, F_a>>

InitScenarioA ==
    /\ CleanIdle
    /\ HeurIdle
    /\ tree = PipeTree({F_a})
    /\ \E h \in ScnHeaders, b \in ScnBodies, bd \in ScnBoundaries,
          g \in ScnSignatures, nl \in ScnNewlines :
          disk = (ScnPath :> ReadableFile(ScnFile(h, b, bd, g, nl)))
    /\ cap = MaxCap
    /\ items = <<>>
    /\ l_done = FALSE
    /\ pc = "ready"
    /\ idx = 0
    /\ rows = <<>>
    /\ out_csv = <<>>
    /\ out_xlsx = <<>>
    /\ final = <<>>

SpecScenarioA == InitScenarioA /\ [][Next]_vars

(***************************************************************************)
(* Metadata-header lines: one text goes through the line scan of the       *)
(* heuristic extractor and through that of the cleaner.                    *)
(***************************************************************************)
M_plain == <<112, 108, 97, 105, 110, 32, 116, 101, 120, 116>>   \* 'plain text'
M_fromage == <<102, 114, 111, 109, 97, 103, 101, 58, 32, 118>>   \* 'fromage: v'

\* a header line of keyword kw with its first letter in upper case, as in
\* "Version: v"
MetaLine(kw) == <<kw[1] - 32>> \o Tail(kw) \o <<58, 32, 118>>

\* a line for each keyword either pattern knows, and two content lines
MetaLines ==
    {MetaLine(kw) : kw \in HEADER_PATTERN \cup CB_HEADER_KEYWORDS}
        \cup {M_plain, M_fromage}

\* texts of one to MaxMetaLines lines
MetaInputs ==
    {Join(ls, <<10>>) : ls \in SeqsUpTo(MetaLines, MaxMetaLines) \ {<<>>}}

InitHeaders ==
    /\ LocIdle
    /\ PipeIdle
    /\ h_raw \in MetaInputs
    /\ h_out = <<>>
    /\ h_done = FALSE
    /\ cb_raw = h_raw
    /\ cb_text = cb_raw
    /\ cb_first = <<>>
    /\ cb_passes = 0

NextHeaders == Extract \/ CleanFirst

SpecHeaders == InitHeaders /\ [][NextHeaders]_vars

(***************************************************************************)
(* CLAIMS                                                                  *)
(***************************************************************************)
\* y holds a match of the e-mail pattern \S+@\S+
HasEmailPattern(y) ==
    \E k \in 2..(Len(y) - 1) :
        y[k] = 64 /\ ~IsSpace(y[k - 1]) /\ ~IsSpace(y[k + 1])

\* y holds a match of the URL pattern http\S+ or www\.\S+
HasUrlPattern(y) ==
    \E i \in 1..Len(y) :
        /\ i + 4 <= Len(y)
        /\ SubSeq(y, i, i + 3) \in {S_http, S_www}
        /\ ~IsSpace(y[i + 4])

\* y holds a tag: "<", one or more characters other than ">", then ">"
HasTagPattern(y) ==
    \E i \in 1..Len(y) : \E j \in (i + 2)..Len(y) :
        /\ y[i] = 60
        /\ y[j] = 62
        /\ \A k \in (i + 1)..(j - 1) : y[k] # 62

\* lower-case letters, digits, whitespace and . , ! ? only
OnlyCleanChars(y) ==
    \A i \in 1..Len(y) :
        \/ y[i] \in (97..122) \cup (48..57) \cup {46, 44, 33, 63}
        \/ IsSpace(y[i])

\* C1: the cleaner is idempotent: applying clean_body to its own output
\* returns that output unchanged, clean_body(clean_body(x)) = clean_body(x).
C1_Idempotent == cb_passes = 2 => cb_text = cb_first

\* C2: no-leak invariant: the final value clean_body returns holds no e-mail
\* pattern, no URL pattern, no <...> tag, and no character other than
\* lower-case letters, digits, whitespace and . , ! ?
C2_NoLeak ==
    cb_passes >= 1 =>
        /\ ~HasEmailPattern(cb_first)
        /\ ~HasUrlPattern(cb_first)
        /\ ~HasTagPattern(cb_first)
        /\ OnlyCleanChars(cb_first)


\* the characters of a text
Chars(s) == {s[i] : i \in 1..Len(s)}

\* a line starting with ">" or "|"
C6_IsQuoted(line) == line # <<>> /\ line[1] \in {62, 124}

\* a line consisting solely of "--", optionally surrounded by whitespace
C6_IsBoundary(line) == Strip(line) = <<45, 45>>

C6_Boundaries(lines) == {i \in 1..Len(lines) : C6_IsBoundary(lines[i])}

\* the case of the claim, for the lines of a candidate body: a quoted line, a
\* later boundary line, and signature lines after the boundary
C6_CaseOf(lines) ==
    \E g \in C6_Boundaries(lines) :
        /\ g < Len(lines)
        /\ \E q \in 1..(g - 1) : C6_IsQuoted(lines[q])

\* the lines before the first boundary that are not quoted
C6_Kept(lines) ==
    SelectSeq(SubSeq(lines, 1, Min(C6_Boundaries(lines)) - 1),
              LAMBDA l : ~C6_IsQuoted(l))

C6_Case == C6_CaseOf(SplitLines(CandidateBody(h_raw)))

\* C6: when the candidate body holds a quoted line and a later signature
\* boundary followed by signature lines, the extracted text holds nothing of
\* the quoted lines, of the boundary line or of the lines after it: it is the
\* text extracted from the unquoted lines before the first boundary alone, and
\* each of its characters occurs in one of those lines (or is a line break or
\* the space that replaces a tag).
C6_QuoteSignatureStripped ==
    h_done =>
        LET lines == SplitLines(CandidateBody(h_raw))
        IN  C6_CaseOf(lines) =>
                LET kept == C6_Kept(lines)
                IN  /\ h_out = HeuristicFromBody(Join(kept, <<10>>))
                    /\ Chars(h_out) \subseteq
                           UNION {Chars(kept[i]) : i \in 1..Len(kept)} \cup {10, 32}

\* a quoted line, content, a boundary and a signature: the content is returned
C6_Witness == h_done /\ Len(h_out) >= MIN_BODY_LEN /\ C6_Case

\* index k of t lies in a blank-line boundary: a run of two or more "\n"
C10_InBoundary(t, k) ==
    /\ t[k] = 10
    /\ \/ (k > 1 /\ t[k - 1] = 10)
       \/ (k < Len(t) /\ t[k + 1] = 10)

\* the block of t that starts at a and runs to the next boundary, trimmed
C10_ParaAt(t, a) ==
    LET ends == {b \in a..Len(t) : b = Len(t) \/ C10_InBoundary(t, b + 1)}
    IN  Strip(SubSeq(t, a, Min(ends)))

\* the non-empty paragraphs of t, as a function from where each starts
C10_Paras(t) ==
    LET starts == {a \in 1..Len(t) :
                      ~C10_InBoundary(t, a) /\ (a = 1 \/ C10_InBoundary(t, a - 1))}
        all == [a \in starts |-> C10_ParaAt(t, a)]
    IN  [a \in {x \in starts : all[x] # <<>>} |-> all[a]]

\* the retained text after line filtering and tag stripping
C10_Text == StripTags(HeuristicRetained(h_raw))

\* C10: the extractor returns the first paragraph, in document order, of the
\* retained text whose length is at least MIN_BODY_LEN; when no paragraph
\* reaches the threshold it returns a paragraph of maximal length; when nothing
\* is retained it returns the empty text.
C10_ParagraphSelection ==
    h_done =>
        LET paras == C10_Paras(C10_Text)
            long == {a \in DOMAIN paras : Len(paras[a]) >= MIN_BODY_LEN}
        IN  IF DOMAIN paras = {} THEN h_out = <<>>
            ELSE IF long # {} THEN h_out = paras[Min(long)]
            ELSE /\ \E a \in DOMAIN paras : h_out = paras[a]
                 /\ \A a \in DOMAIN paras : Len(paras[a]) <= Len(h_out)

\* two paragraphs reach the threshold and the later one is the longer: the
\* first is returned
C10_Witness ==
    /\ h_done
    /\ LET paras == C10_Paras(C10_Text)
           long == {a \in DOMAIN paras : Len(paras[a]) >= MIN_BODY_LEN}
       IN  /\ Cardinality(long) >= 2
           /\ \E b \in long : Len(paras[b]) > Len(h_out)


(***************************************************************************)
(* Locator claims.                                                         *)
(***************************************************************************)
\* the positions of the entries that lie in subdirectory d
C5_EntriesIn(d) ==
    {i \in 1..Len(items) : Len(items[i].path) = 2 /\ items[i].path[1] = d}

\* the names in subdirectory d that end in .eml, whatever their case
C5_Available(d) == {f \in tree.subdir[d] : IsEmlName(f)}

\* C5: for every subdirectory of the root, the locator returns exactly
\* min(available, cap) entries lying in it, where available counts its names
\* with the .eml extension in any case; they are its lexicographically
\* smallest such names, in strictly increasing order, contiguous, labelled
\* with the subdirectory's name, and the subdirectories appear in
\* lexicographic order.
C5_PerCategoryCap ==
    l_done =>
        /\ \A d \in DOMAIN tree.subdir :
              LET here == C5_EntriesIn(d)
                  avail == C5_Available(d)
                  names == {items[i].filename : i \in here}
              IN  /\ Cardinality(here) = Min({Cardinality(avail), cap})
                  /\ names \subseteq avail
                  /\ \A i \in here : /\ items[i].category = d
                                    /\ items[i].path[2] = items[i].filename
                  /\ \A f \in avail \ names : \A g \in names : LexLess(g, f)
                  /\ \A i, j \in here :
                        i < j => LexLess(items[i].filename, items[j].filename)
                  /\ \A i, j \in here : \A k \in i..j : k \in here
        /\ \A i, j \in 1..Len(items) :
              (i < j /\ Len(items[i].path) = 2 /\ Len(items[j].path) = 2)
                  => \/ items[i].path[1] = items[j].path[1]
                     \/ LexLess(items[i].path[1], items[j].path[1])

\* C5 witness: the locator has run with a positive cap on a tree in which one
\* subdirectory holds more .eml names than the cap, one of them in upper
\* case, and two subdirectories contribute entries.
C5_Witness ==
    /\ l_done
    /\ cap >= 1
    /\ \E d \in DOMAIN tree.subdir :
          /\ Cardinality(C5_Available(d)) > cap
          /\ F_B \in C5_Available(d)
          /\ C5_EntriesIn(d) # {}
    /\ \E d, e \in DOMAIN tree.subdir :
          d # e /\ C5_EntriesIn(d) # {} /\ C5_EntriesIn(e) # {}

\* some subdirectory of the root holds a name ending in .eml
C8_SomeSubdirHasEml ==
    \E d \in DOMAIN tree.subdir : \E f \in tree.subdir[d] : IsEmlName(f)

\* the root's own names ending in .eml
C8_RootEml == {f \in DOMAIN tree.root : IsEmlName(f)}

\* the fallback half: with no .eml name in any subdirectory, the entries are
\* the lexicographically first min(available, cap) .eml names of the root, in
\* order, each labelled "uncategorized"
C8_Fallback ==
    ~C8_SomeSubdirHasEml =>
        LET names == {items[i].filename : i \in 1..Len(items)}
        IN  /\ Len(items) = Min({Cardinality(C8_RootEml), cap})
            /\ names \subseteq C8_RootEml
            /\ \A f \in C8_RootEml \ names : \A g \in names : LexLess(g, f)
            /\ \A i, j \in 1..Len(items) :
                  i < j => LexLess(items[i].filename, items[j].filename)
            /\ \A i \in 1..Len(items) :
                  /\ items[i].category = UNCATEGORIZED
                  /\ items[i].path = <<items[i].filename>>

\* C8 (as stated): without a subdirectory holding a .eml file the root's own
\* .eml files are returned, capped and labelled "uncategorized"; with one, no
\* entry is labelled "uncategorized" and no root-level file is returned; a
\* root that is no directory gives the empty sequence.
C8_FlatFallback ==
    l_done =>
        /\ C8_Fallback
        /\ C8_SomeSubdirHasEml =>
              \A i \in 1..Len(items) :
                  /\ items[i].category # UNCATEGORIZED
                  /\ Len(items[i].path) = 2
        /\ ~tree.isdir => items = <<>>

\* C8 (amended): as above, except that with a subdirectory holding a .eml
\* file every entry lies in a subdirectory and is labelled with that
\* subdirectory's name, which may itself be "uncategorized".
C8_FlatFallbackAmended ==
    l_done =>
        /\ C8_Fallback
        /\ C8_SomeSubdirHasEml =>
              \A i \in 1..Len(items) :
                  /\ Len(items[i].path) = 2
                  /\ items[i].path[1] \in DOMAIN tree.subdir
                  /\ items[i].category = items[i].path[1]
                  /\ items[i].filename = items[i].path[2]
                  /\ items[i].filename \in tree.subdir[items[i].path[1]]
        /\ ~tree.isdir => items = <<>>

\* C8 witness: the locator has run on a root that holds a .eml file of its
\* own next to a subdirectory named "uncategorized" with a .eml file in it,
\* and has returned an entry labelled "uncategorized" from that subdirectory.
C8_Witness ==
    /\ l_done
    /\ F_a \in C8_RootEml
    /\ UNCATEGORIZED \in DOMAIN tree.subdir
    /\ \E i \in 1..Len(items) :
          /\ items[i].category = UNCATEGORIZED
          /\ items[i].path[1] = UNCATEGORIZED
          /\ Len(items[i].path) = 2


(***************************************************************************)
(* Assembler claims.                                                       *)
(***************************************************************************)
\* C3: every row handed to the sinks has a text field whose trimmed length is
\* at least MIN_BODY_LEN, measured on the text as it is written, after the
\* formula-injection pass and the illegal-character strip.
C3_LengthFilter ==
    /\ \A i \in 1..Len(out_csv) : Len(Strip(out_csv[i].text)) >= MIN_BODY_LEN
    /\ \A i \in 1..Len(out_xlsx) : Len(Strip(out_xlsx[i].text)) >= MIN_BODY_LEN

\* a serialized field that opens with "=", "+", "-" or "@"
C4_OpensFormula(v) == v # <<>> /\ v[1] \in {61, 43, 45, 64}

\* C4: no string field of a row written to the sinks (filename, category,
\* text) has "=", "+", "-" or "@" as its first character, after both
\* per-column passes.
C4_NoFormulaLead ==
    \A i \in 1..Len(out_csv) :
        /\ ~C4_OpensFormula(out_csv[i].filename)
        /\ ~C4_OpensFormula(out_csv[i].category)
        /\ ~C4_OpensFormula(out_csv[i].text)
        /\ ~C4_OpensFormula(out_xlsx[i].filename)
        /\ ~C4_OpensFormula(out_xlsx[i].category)
        /\ ~C4_OpensFormula(out_xlsx[i].text)

\* a located file that cannot be read, or that the envelope parser gets no
\* text from
C9_Fails(info) ==
    \/ ~disk[info.path].readable
    \/ try_extract_from_eml_bytes(disk[info.path].raw).text = <<>>

\* the rows of the readable files that pass the length filter, in the order
\* of the locator
C9_ExpectedRows ==
    LET keep == SelectSeq(items, LAMBDA info :
                    /\ disk[info.path].readable
                    /\ ~IsDropped(extract_main_body_from_file(disk[info.path]).body))
    IN  [i \in 1..Len(keep) |->
            [filename |-> keep[i].filename, category |-> keep[i].category,
             text |-> extract_main_body_from_file(disk[keep[i].path]).body]]

\* C9: when the located list holds a file that cannot be read or parsed, the
\* run does not abort, and once the loop is over the rows are exactly those
\* of the readable files that pass the length filter, in locator order.
C9_FailuresAbsorbed ==
    (l_done /\ \E i \in 1..Len(items) : C9_Fails(items[i])) =>
        /\ pc # "aborted"
        /\ pc \in {"returned", "written", "final"} => rows = C9_ExpectedRows

(***************************************************************************)
(* Scenario A claims.                                                      *)
(***************************************************************************)
\* the one row of the scenario, with the given text
C7_Row(text) == <<[filename |-> F_a, category |-> D_alt, text |-> text]>>

C11_Prefixes ==
    {KW_archive_name, KW_from, KW_subject, KW_path, KW_xref, KW_organization,
     KW_lines, KW_newsgroups, KW_message_id, KW_keywords, KW_date, KW_sender,
     KW_last_modified, KW_version}

\* the lines of a text, as a set
C11_LinesOf(t) == {SplitLines(t)[i] : i \in 1..Len(SplitLines(t))}

\* C11: every line of the candidate body that begins, in any case, with one
\* of the fourteen prefixes followed by ":" is dropped by the line scan: it is
\* no line of the text extract_body_by_heuristic returns, and its normalized
\* form is no line of the text clean_body returns.
C11_MetadataDropped ==
    LET lines == SplitLines(h_raw)
        meta == {lines[i] : i \in {k \in 1..Len(lines) :
                                      MatchesHeader(lines[k], C11_Prefixes)}}
    IN  /\ h_done => meta \cap C11_LinesOf(h_out) = {}
        /\ cb_passes >= 1 =>
              {CB_Normalize(l) : l \in meta} \cap C11_LinesOf(cb_text) = {}

====
